---- MODULE Spec2Model ----
(***************************************************************************)
(* The macaroon root key store (macaroons/store.go): RootKeyStorage        *)
(* instances that share one bolt database.  The bucket "macrootkeys" holds *)
(* the key-derivation parameters under "enckey" and the encrypted root key *)
(* under "0"; each instance holds the derived key in memory (encKey).      *)
(*                                                                         *)
(* bolt runs the closure given to Update under the database's single       *)
(* writer lock on a private copy of the bucket and publishes the copy at   *)
(* commit; a closure error or a commit error rolls the copy back.  View    *)
(* runs the closure on the snapshot taken when the transaction began.      *)
(* Every handler is therefore modelled by its part before the transaction  *)
(* (the action of its name), its closure (...Tx) and the commit.           *)
(*                                                                         *)
(* snacl is modelled by its contract: a key is determined by (password,    *)
(* salt), a ciphertext decrypts exactly under the key that produced it.    *)
(***************************************************************************)
EXTENDS Integers, Sequences, FiniteSets, TLC

\* ------------------------------------------------------------------ bounds
NumInst == 2        \* RootKeyStorage instances on the same database
NumProcs == 3       \* calling goroutines
MaxSalt == 1        \* distinct salts snacl.NewSecretKey can draw
MaxRand == 2        \* distinct values rand.Reader can fill a root key with
MaxID == 2          \* distinct values rand.Read can fill an account ID with
MaxAccounts == 2    \* NewAccount calls that succeed in one behaviour

\* --------------------------------------------------------------- constants
RootKeyLen == 32
AccountIDLen == 16
OneTimeBalance == 0
PeriodicBalance == 1
\* the length of a binary marshaled time.Time
TimeLen == 15

rootKeyBucketName == "macrootkeys"
defaultRootKeyID == "0"
encryptionKeyID == "enckey"

OK == "nil"
ErrAlreadyUnlocked == "macaroon store already unlocked"
ErrStoreLocked == "macaroon store is locked"
ErrPasswordRequired == "a non-nil password is required"
ErrEncKeyNotFound == "macaroon encryption key not found"
ErrRootKeyNotExist == "root key with id doesn't exist"
\* errors of the imported packages that the handlers pass through
ErrInvalidPassword == "snacl: invalid password"
ErrDecryptFailed == "snacl: unable to decrypt"
ErrRand == "rand: read failed"
ErrDatabaseNotOpen == "bolt: database not open"
ErrTx == "bolt: write failed"

ErrMalformed == "malformed data"
ErrAccNotFound == "account not found"
ErrTimeMarshal == "Time.MarshalBinary: zone offset"
ErrTimeUnmarshal == "Time.UnmarshalBinary: unsupported version"

StoreErrs == {ErrDatabaseNotOpen, ErrTx, ErrRand}

\* ------------------------------------------------------------------ values
Nil == <<>>
Some(x) == <<x>>

Inst == 1..NumInst
Procs == 1..NumProcs
\* goroutine p calls the instance InstOf(p): one goroutine per instance, the
\* remaining ones are further callers of instance 1.
InstOf(p) == IF p <= NumInst THEN p ELSE 1

\* a *[]byte argument: nil, or a pointer to a (possibly empty) byte slice
Passwords == {"", "a"}
PasswordArgs == {Nil} \cup {Some(w) : w \in Passwords}
Salts == 1..MaxSalt
Ids == {defaultRootKeyID, encryptionKeyID, "1"}

\* what rand.Reader put into the RootKeyLen bytes of a new root key
NewRootKey(r) == [n \in 1..RootKeyLen |-> r]

\* points at which a closure can fail for a reason outside the program
Faults == {"none", "newkey", "rand", "encrypt", "put1", "put2"}

\* what rand.Read put into the AccountIDLen bytes of a new account ID
NewAccountID(r) == [n \in 1..AccountIDLen |-> r]

\* uint64 values, as 16-bit limbs: 0, 9735, one with all bytes different,
\* and the largest
Uint64Samples ==
    {<<0, 0, 0, 0>>, <<9735, 0, 0, 0>>, <<513, 1027, 1541, 2055>>,
     <<65535, 65535, 65535, 65535>>}

\* the seconds of 2018-07-02T15:44:00Z since the year 1 (63666143040)
testExpSec == <<16192, 53964, 14, 0>>

\* ------------------------------------------------------------------- snacl
ZeroKey == <<>>
DK(pw, salt) == <<pw, salt>>

NewSecretKey(pw, salt) ==
    [salt |-> salt, digest |-> DK(pw, salt), key |-> DK(pw, salt)]

Marshal(sk) == [kind |-> "params", salt |-> sk.salt, digest |-> sk.digest]

Unmarshal(v) == [salt |-> v.salt, digest |-> v.digest, key |-> ZeroKey]

\* DeriveKey with a password that does not match the marshalled parameters
\* reports ErrInvalidPassword (the check the comment on CreateUnlock speaks
\* of); lazy = TRUE is the primitive that derives without checking and hands
\* back a key that decrypts nothing.  Both are kept as outcomes.
DeriveKey(sk, pw, lazy) ==
    LET k == DK(pw, sk.salt)
    IN  IF k = sk.digest \/ lazy
        THEN [err |-> OK, sk |-> [sk EXCEPT !.key = k]]
        ELSE [err |-> ErrInvalidPassword, sk |-> sk]

Encrypt(sk, pt) == [kind |-> "ct", k |-> sk.key, pt |-> pt]

Decrypt(sk, v) ==
    IF v.kind = "ct" /\ v.k = sk.key
    THEN [err |-> OK, pt |-> v.pt]
    ELSE [err |-> ErrDecryptFailed, pt |-> Nil]

\* the outcomes of DeriveKey on a mismatch that are explored
DeriveModes == BOOLEAN

\* (mutant) Zero that leaves the key bytes as they are
ZeroKeeps(sk) == sk

Zero(sk) == [sk EXCEPT !.key = ZeroKey]

\* -------------------------------------------------------------------- bolt
BucketGet(b, k) == IF k \in DOMAIN b THEN Some(b[k]) ELSE Nil

BucketPut(b, k, v) == [x \in (DOMAIN b) \cup {k} |-> IF x = k THEN v ELSE b[x]]

EmptyBucket == [x \in {} |-> Nil]

\* ------------------------------------------------------- encoding/binary
\* A uint64 (and the int64 seconds of a time.Time) is kept as its four
\* 16-bit limbs, least significant first, so that no width is lost.
Limbs == 1..4

\* a 64-bit value in eight bytes, most significant first
PutInt64(v) ==
    <<v[4] \div 256, v[4] % 256, v[3] \div 256, v[3] % 256,
      v[2] \div 256, v[2] % 256, v[1] \div 256, v[1] % 256>>

Int64(b) ==
    <<b[8] + 256 * b[7], b[6] + 256 * b[5],
      b[4] + 256 * b[3], b[2] + 256 * b[1]>>

\* (mutant) the most significant byte first
PutUint64BigEndian(v) == PutInt64(v)

\* binary.LittleEndian.PutUint64
PutUint64(v) ==
    <<v[1] % 256, v[1] \div 256, v[2] % 256, v[2] \div 256,
      v[3] % 256, v[3] \div 256, v[4] % 256, v[4] \div 256>>

\* binary.LittleEndian.Uint64
Uint64(b) ==
    <<b[1] + 256 * b[2], b[3] + 256 * b[4],
      b[5] + 256 * b[6], b[7] + 256 * b[8]>>

\* ------------------------------------------------------------------- time
\* A time.Time: the seconds and nanoseconds of the instant, the zone (UTC,
\* or an offset in seconds east of UTC), and whether it carries a
\* monotonic clock reading, as the result of time.Now() does.
MkTime(sec, nsec, utc, offset, mono) ==
    [sec |-> sec, nsec |-> nsec, utc |-> utc, offset |-> offset, mono |-> mono]

\* time.Time{}
ZeroTime == MkTime(<<0, 0, 0, 0>>, 0, TRUE, 0, FALSE)

\* a 16-bit two's complement value in two bytes, most significant first
PutInt16(o) ==
    LET u == IF o < 0 THEN o + 65536 ELSE o
    IN  <<u \div 256, u % 256>>

Int16(b) ==
    LET u == 256 * b[1] + b[2]
    IN  IF u >= 32768 THEN u - 65536 ELSE u

\* a 32-bit two's complement value in four bytes, most significant first
PutInt32(n) ==
    <<n \div 16777216, (n \div 65536) % 256, (n \div 256) % 256, n % 256>>

Int32(b) ==
    (IF b[1] >= 128 THEN b[1] - 256 ELSE b[1]) * 16777216
    + b[2] * 65536 + b[3] * 256 + b[4]

\* Time.MarshalBinary (encoding version 1): version, seconds, nanoseconds
\* and the zone offset in minutes, -1 standing for UTC; a zone whose offset
\* is not a whole number of minutes, or does not fit, is an error.  The
\* monotonic reading is not encoded.
MarshalBinary(t) ==
    LET o == t.offset \div 60
    IN  IF ~t.utc /\ t.offset % 60 # 0
        THEN [err |-> ErrTimeMarshal, bytes |-> <<>>]
        ELSE IF ~t.utc /\ (o < -32768 \/ o = -1 \/ o > 32767)
        THEN [err |-> ErrTimeMarshal, bytes |-> <<>>]
        ELSE [err |-> OK,
              bytes |-> <<1>> \o PutInt64(t.sec) \o PutInt32(t.nsec)
                        \o PutInt16(IF t.utc THEN -1 ELSE o)]

\* Time.UnmarshalBinary on the TimeLen bytes the account holds
UnmarshalBinary(b) ==
    IF b[1] # 1 THEN [err |-> ErrTimeUnmarshal, t |-> ZeroTime]
    ELSE LET o == Int16(SubSeq(b, 14, 15))
         IN  [err |-> OK,
              t |-> MkTime(Int64(SubSeq(b, 2, 9)),
                           Int32(SubSeq(b, 10, 13)),
                           o = -1, IF o = -1 THEN 0 ELSE o * 60, FALSE)]

\* Time.Equal: the same instant
Equal(t, u) == t.sec = u.sec /\ t.nsec = u.nsec

\* times: the test's expiration date, the zero time, a time.Now() in a zone
\* one hour east, a time five hours west, and times in zones the binary
\* format has no encoding for (30 seconds east, one minute west)
testExpDate == MkTime(testExpSec, 0, TRUE, 0, FALSE)

TimeSamples ==
    {testExpDate, ZeroTime,
     MkTime(testExpSec, 999999999, FALSE, 3600, TRUE),
     MkTime(testExpSec, 1, FALSE, -18000, FALSE),
     MkTime(testExpSec, 0, FALSE, 30, FALSE),
     MkTime(testExpSec, 0, FALSE, -60, FALSE)}

\* --------------------------------------------------------------- accounts
\* (mutant) the accounts kept in the bucket of the root keys
accountBucketNameShared == rootKeyBucketName

accountBucketName == "accounts"
AccountLen == AccountIDLen + 47

\* an OffChainBalanceAccount
MkAccount(id, type, initial, current, lastUpdate, expirationDate) ==
    [ID |-> id, Type |-> type, InitialBalance |-> initial,
     CurrentBalance |-> current, LastUpdate |-> lastUpdate,
     ExpirationDate |-> expirationDate]

\* &OffChainBalanceAccount{}
ZeroAccount ==
    MkAccount([n \in 1..AccountIDLen |-> 0], 0, <<0, 0, 0, 0>>,
              <<0, 0, 0, 0>>, ZeroTime, ZeroTime)

\* copy(b[:TimeLen], src) into zeroed bytes
Copy15(src) == [n \in 1..TimeLen |-> IF n <= Len(src) THEN src[n] ELSE 0]

\* (mutant) the type written as its successor
AccountMarshalTypeShifted(a) ==
    LET lastUpdateMarshaled == MarshalBinary(a.LastUpdate)
        expirationDateMarshaled == MarshalBinary(a.ExpirationDate)
    IN  IF lastUpdateMarshaled.err # OK
        THEN [err |-> lastUpdateMarshaled.err, bytes |-> <<>>]
        ELSE IF expirationDateMarshaled.err # OK
        THEN [err |-> expirationDateMarshaled.err, bytes |-> <<>>]
        ELSE [err |-> OK,
              bytes |-> a.ID \o <<(a.Type + 1) % 256>>
                        \o PutUint64(a.InitialBalance)
                        \o PutUint64(a.CurrentBalance)
                        \o Copy15(lastUpdateMarshaled.bytes)
                        \o Copy15(expirationDateMarshaled.bytes)]

\* OffChainBalanceAccount.Marshal
AccountMarshal(a) ==
    LET lastUpdateMarshaled == MarshalBinary(a.LastUpdate)
        expirationDateMarshaled == MarshalBinary(a.ExpirationDate)
    IN  IF lastUpdateMarshaled.err # OK
        THEN [err |-> lastUpdateMarshaled.err, bytes |-> <<>>]
        ELSE IF expirationDateMarshaled.err # OK
        THEN [err |-> expirationDateMarshaled.err, bytes |-> <<>>]
        ELSE [err |-> OK,
              bytes |-> a.ID \o <<a.Type>>
                        \o PutUint64(a.InitialBalance)
                        \o PutUint64(a.CurrentBalance)
                        \o Copy15(lastUpdateMarshaled.bytes)
                        \o Copy15(expirationDateMarshaled.bytes)]

\* the fields read from AccountLen bytes
AccountFields(m) ==
    LET lu == UnmarshalBinary(SubSeq(m, AccountIDLen + 18, AccountIDLen + 32))
        ed == UnmarshalBinary(SubSeq(m, AccountIDLen + 33, AccountIDLen + 47))
    IN  IF lu.err # OK THEN [err |-> lu.err, account |-> ZeroAccount]
        ELSE IF ed.err # OK THEN [err |-> ed.err, account |-> ZeroAccount]
        ELSE [err |-> OK,
              account |->
                 MkAccount(SubSeq(m, 1, AccountIDLen),
                           m[AccountIDLen + 1],
                           Uint64(SubSeq(m, AccountIDLen + 2, AccountIDLen + 9)),
                           Uint64(SubSeq(m, AccountIDLen + 10, AccountIDLen + 17)),
                           lu.t, ed.t)]

\* (mutant) only a blob that is too short refused
AccountUnmarshalShortOnly(marshaled) ==
    IF Len(marshaled) < AccountIDLen + 47
    THEN [err |-> ErrMalformed, account |-> ZeroAccount]
    ELSE AccountFields(marshaled)

\* OffChainBalanceAccount.Unmarshal
AccountUnmarshal(marshaled) ==
    IF Len(marshaled) # AccountIDLen + 47
    THEN [err |-> ErrMalformed, account |-> ZeroAccount]
    ELSE AccountFields(marshaled)

VARIABLES
    db,       \* the committed bucket "macrootkeys": key -> value
    encKey,   \* encKey[i]: r.encKey of instance i, Nil or Some(secret key)
    closed,   \* closed[i]: instance i has closed its database handle
    writer,   \* the goroutine inside an Update transaction, 0 if none
    pc,       \* pc[p]: "idle", "called", "wait" (for Update), "commit", "view"
    cur,      \* cur[p]: the call goroutine p is in
    tx,       \* tx[p]: the bucket as p's open transaction sees it
    ret,      \* the result of the call that returned last, until the next call
    overlap,  \* whether the callers make their calls concurrently
    \* what the callers have observed (read by no handler):
    seen,     \* Some(key) that a RootKey call last returned, Nil since the
              \*   last committed GenerateNewRootKey
    changed,  \* Some(record) of the last ChangePassword that succeeded, Nil
              \*   once a later one assigns r.encKey or a root key is generated
    gen,      \* Some(instance, key) of the last GenerateNewRootKey that
              \*   succeeded, Nil once a ChangePassword assigns r.encKey
    \* the account storage on the same database:
    accounts, \* the committed bucket "accounts": account ID -> value
    acall,    \* the AccountStorage call in flight, with what it has built
    aret,     \* the result of the AccountStorage call that returned last
    created,  \* observation: whether the bucket was empty at first, and the
              \*   accounts that NewAccount has returned since
    codec     \* an account or a byte slice and what Marshal or Unmarshal
              \*   returned for it

ledger == <<accounts, acall, aret, created, codec>>

vars == <<db, encKey, closed, writer, pc, cur, tx, ret, overlap,
          seen, changed, gen, ledger>>

\* a call: the handler, its arguments (id of Get, password of CreateUnlock,
\* old and new password of ChangePassword), what its closure has computed,
\* what r.encKey was when the handler was entered, and the secret keys the
\* closure has left in memory with nothing pointing at them
NoCall ==
    [op |-> "", id |-> "", pw |-> Nil, newpw |-> Nil,
     val |-> Nil, made |-> Nil, wrote |-> {}, encKey |-> Nil, left |-> {}]

MkCall(op, id, pw, newpw) ==
    [op |-> op, id |-> id, pw |-> pw, newpw |-> newpw,
     val |-> Nil, made |-> Nil, wrote |-> {}, encKey |-> Nil, left |-> {}]

Calls ==
    {MkCall("CreateUnlock", "", pw, Nil) : pw \in PasswordArgs}
    \cup {MkCall("ChangePassword", "", a[1], a[2]) : a \in PasswordArgs \X PasswordArgs}
    \cup {MkCall("Get", id, Nil, Nil) : id \in Ids}
    \cup {MkCall(op, "", Nil, Nil) : op \in {"RootKey", "GenerateNewRootKey", "Close"}}

NoRet == [proc |-> 0, op |-> "", err |-> OK, val |-> Nil, id |-> "", wrote |-> {}]

\* the record of a return: who called what, the error, and on success the
\* value (with RootKey's id) and the keys the committed transaction put
Return(p, c, err, val, wrote) ==
    [proc |-> p, op |-> c.op, err |-> err,
     val |-> IF err = OK THEN val ELSE Nil,
     id |-> IF err = OK /\ c.op = "RootKey" THEN defaultRootKeyID ELSE "",
     wrote |-> IF err = OK THEN wrote ELSE {}]

\* no AccountStorage call in flight, none returned
NoACall ==
    [op |-> "", stage |-> "", balance |-> Nil, expirationDate |-> Nil,
     id |-> Nil, account |-> Nil, tx |-> EmptyBucket]

NoARet == [op |-> "", err |-> OK, account |-> Nil, accounts |-> <<>>]

NoCodec == [op |-> "", arg |-> Nil, err |-> OK, bytes |-> <<>>, account |-> Nil]

\* accounts of every type, balance and time sampled
AccountSamples ==
    {MkAccount(id, type, b[1], b[2], t[1], t[2]) :
        id \in {NewAccountID(0), NewAccountID(255), [n \in 1..AccountIDLen |-> n]},
        type \in {OneTimeBalance, PeriodicBalance, 255},
        b \in Uint64Samples \X Uint64Samples,
        t \in TimeSamples \X TimeSamples}

\* the marshaled test account of the test's balance and expiration date
testAccountBytes ==
    AccountMarshal(MkAccount(NewAccountID(1), OneTimeBalance, <<9735, 0, 0, 0>>,
                             <<9735, 0, 0, 0>>, testExpDate, testExpDate)).bytes

\* byte slices: empty, one byte, a marshaled account cut short or
\* extended, zero bytes of several lengths, a marshaled account
BlobSamples ==
    {<<>>, <<1>>, testAccountBytes,
     SubSeq(testAccountBytes, 1, AccountLen - 1),
     testAccountBytes \o <<0>>,
     testAccountBytes \o testAccountBytes}
    \cup {[n \in 1..len |-> 0] : len \in {AccountLen - 1, AccountLen, AccountLen + 1}}

\* the arguments of the AccountStorage calls
Balances == {<<9735, 0, 0, 0>>, <<65535, 65535, 65535, 65535>>}
Expirations == {testExpDate, MkTime(testExpSec, 0, FALSE, 30, FALSE)}
AccountIDs == {NewAccountID(r) : r \in 1..MaxID}
\* what time.Now() returns: a time with a monotonic clock reading
Nows == {t \in TimeSamples : t.mono}

\* values another writer may have left under an ID in the bucket "accounts"
\* of an existing database file: an empty value, values of a wrong length,
\* values of the right length in which the version byte of LastUpdate or
\* of ExpirationDate is not the time format's, and a periodic account
ForeignBlobs ==
    {<<>>,
     SubSeq(testAccountBytes, 1, AccountLen - 1),
     testAccountBytes \o <<0>>,
     [testAccountBytes EXCEPT ![AccountIDLen + 18] = 0],
     [testAccountBytes EXCEPT ![AccountIDLen + 33] = 0],
     [testAccountBytes EXCEPT ![AccountIDLen + 1] = PeriodicBalance]}

InitialLedgers ==
    {EmptyBucket}
    \cup {BucketPut(EmptyBucket, NewAccountID(r), f) :
             r \in {1, MaxID}, f \in ForeignBlobs}

\* the root key store after NewRootKeyStorage; the account storage idle
RootKeyStart ==
    /\ db = EmptyBucket
    /\ encKey = [i \in Inst |-> Nil]
    /\ closed = [i \in Inst |-> FALSE]
    /\ writer = 0
    /\ pc = [p \in Procs |-> "idle"]
    /\ cur = [p \in Procs |-> NoCall]
    /\ tx = [p \in Procs |-> EmptyBucket]
    /\ ret = NoRet
    /\ seen = Nil
    /\ changed = Nil
    /\ gen = Nil
    /\ acall = NoACall
    /\ aret = NoARet

\* both buckets as created on a new database file
Start ==
    /\ RootKeyStart
    /\ accounts = EmptyBucket
    /\ created = [empty |-> TRUE, list |-> <<>>]
    /\ codec = NoCodec

\* the state after NewRootKeyStorage, the callers calling one after the other
Init == Start /\ overlap = FALSE

\* ------------------------------------------------------------------ callers
\* a goroutine may begin a call when it is in none, and, unless the callers
\* overlap, no other goroutine is in one
MayCall(p) ==
    /\ pc[p] = "idle"
    /\ overlap \/ \A q \in Procs \ {p} : pc[q] = "idle"

\* the handlers that assign or zero r.encKey, a field no lock protects
ExclusiveOps == {"CreateUnlock", "ChangePassword", "Close"}

\* the goroutines of one instance make no call while one of them is in a
\* handler that writes r.encKey
Serial(p, c) ==
    \A q \in Procs \ {p} :
        InstOf(q) = InstOf(p) /\ pc[q] # "idle"
        => c.op \notin ExclusiveOps /\ cur[q].op \notin ExclusiveOps

\* goroutine p enters handler c.op of its instance
Enter(p, c) ==
    /\ MayCall(p)
    /\ pc' = [pc EXCEPT ![p] = "called"]
    /\ cur' = [cur EXCEPT ![p] = [c EXCEPT !.encKey = encKey[InstOf(p)]]]
    /\ ret' = NoRet
    /\ UNCHANGED <<db, encKey, closed, writer, tx, overlap, seen, changed, gen>>
    /\ UNCHANGED ledger

\* goroutine p calls handler c.op of its instance, the callers keeping the
\* handlers that write r.encKey apart
Call(p, c) == Serial(p, c) /\ Enter(p, c)

\* ------------------------------------------------------ transaction plumbing
\* (mutant) db.Update without the writer lock
WriterFreeAlways == TRUE

\* db.Update begins when the writer lock is free
WriterFree == writer = 0

\* (mutant) the puts of a failed transaction stay
RollbackKeeps(b, t) == t

\* a transaction that ends in an error leaves the committed bucket as it was
Rollback(b, t) == b

\* what a closure hands back: its error, the bucket as the transaction now
\* sees it, Some(key) if it assigned r.encKey, its value, the keys it put,
\* and, when it returns nil, the secret keys of its local variables as it
\* leaves them
Res(err, b, key, val, wrote) ==
    [err |-> err, bucket |-> b, key |-> key, val |-> val, made |-> Nil,
     wrote |-> wrote, left |-> {}]

\* the same for a closure that has generated the root key made
ResMade(b, val, made, wrote) ==
    [err |-> OK, bucket |-> b, key |-> Nil, val |-> val, made |-> made,
     wrote |-> wrote, left |-> {}]

\* the callers' observations at the return of p's call
Observed(p, err, val) ==
    LET i == InstOf(p)
        op == cur[p].op
    IN  /\ seen' = IF err = OK /\ op = "RootKey" THEN Some(val)
                   ELSE IF err = OK /\ op = "GenerateNewRootKey" THEN Nil
                   ELSE seen
        /\ changed' = IF err = OK /\ op = "ChangePassword"
                      THEN Some([inst |-> i, old |-> cur[p].pw[1], new |-> cur[p].newpw[1],
                                 k1 |-> seen,
                                 locked |-> {j \in Inst : encKey[j] = Nil}])
                      ELSE IF err = OK /\ op = "GenerateNewRootKey" THEN Nil
                      ELSE changed
        /\ gen' = IF err = OK /\ op = "GenerateNewRootKey"
                  THEN Some([inst |-> i, key |-> cur[p].made])
                  ELSE IF op = "Close" /\ gen # Nil /\ gen[1].inst = i THEN Nil
                  ELSE gen

\* the call of p returns: nothing of it stays in flight
Done(p, err, val, wrote) ==
    /\ ret' = Return(p, cur[p], err, val, wrote)
    /\ pc' = [pc EXCEPT ![p] = "idle"]
    /\ cur' = [cur EXCEPT ![p] = NoCall]
    /\ tx' = [tx EXCEPT ![p] = EmptyBucket]
    /\ Observed(p, err, val)
    /\ UNCHANGED <<overlap, ledger>>

\* the handler's check before its transaction: error e returns at once,
\* otherwise the call goes on to db.Update
Checked(p, e) ==
    /\ IF e # OK THEN Done(p, e, Nil, {})
       ELSE /\ pc' = [pc EXCEPT ![p] = "wait"]
            /\ UNCHANGED <<cur, tx, ret, overlap, seen, changed, gen, ledger>>
    /\ UNCHANGED <<db, encKey, closed, writer>>

\* the secret key r.encKey pointed at before the closure assigned another
\* one: the assignment leaves it as it is
Superseded(p, r) ==
    IF r.key # Nil /\ encKey[InstOf(p)] # Nil
    THEN {encKey[InstOf(p)][1]}
    ELSE {}

\* the closure of p's Update has run with result r: its assignment to
\* r.encKey is made; an error rolls back, otherwise the commit is pending
Ran(p, r) ==
    /\ encKey' = IF r.key = Nil THEN encKey
                 ELSE [encKey EXCEPT ![InstOf(p)] = r.key]
    /\ IF r.err # OK
       THEN /\ db' = Rollback(db, r.bucket)
            /\ Done(p, r.err, Nil, {})
            /\ UNCHANGED writer
       ELSE /\ writer' = p
            /\ pc' = [pc EXCEPT ![p] = "commit"]
            /\ cur' = [cur EXCEPT ![p].val = r.val, ![p].made = r.made,
                                  ![p].wrote = r.wrote,
                                  ![p].left = r.left \cup Superseded(p, r)]
            /\ tx' = [tx EXCEPT ![p] = r.bucket]
            /\ changed' = IF cur[p].op = "ChangePassword" THEN Nil ELSE changed
            /\ gen' = IF cur[p].op = "ChangePassword" THEN Nil ELSE gen
            /\ UNCHANGED <<db, ret, overlap, seen, ledger>>
    /\ UNCHANGED closed

\* db.Update on a closed handle
NotOpen(p) ==
    /\ Done(p, ErrDatabaseNotOpen, Nil, {})
    /\ UNCHANGED <<db, encKey, closed, writer>>

\* tx.Commit: the transaction's bucket is published, or the commit fails and
\* the transaction is rolled back; either way the writer lock is released
Commit(p) ==
    /\ pc[p] = "commit"
    /\ \E ok \in BOOLEAN :
          /\ db' = IF ok THEN tx[p] ELSE Rollback(db, tx[p])
          /\ Done(p, IF ok THEN OK ELSE ErrTx, cur[p].val, cur[p].wrote)
    /\ writer' = 0
    /\ UNCHANGED <<encKey, closed>>

\* ------------------------------------------------------------- CreateUnlock
\* (mutant) the nil check made before the lock check
CreateUnlockCheckNilFirst(key, password) ==
    IF password = Nil THEN ErrPasswordRequired
    ELSE IF key # Nil THEN ErrAlreadyUnlocked
    ELSE OK

CreateUnlockCheck(key, password) ==
    IF key # Nil THEN ErrAlreadyUnlocked
    ELSE IF password = Nil THEN ErrPasswordRequired
    ELSE OK

CreateUnlock(p) ==
    /\ pc[p] = "called"
    /\ cur[p].op = "CreateUnlock"
    /\ Checked(p, CreateUnlockCheck(encKey[InstOf(p)], cur[p].pw))

\* (mutant) r.encKey assigned before the error of DeriveKey is looked at
CreateUnlockBodyAssignFirst(b, password, salt, fault, lazy) ==
    LET dbKey == BucketGet(b, encryptionKeyID)
        d == DeriveKey(Unmarshal(dbKey[1]), password[1], lazy)
        sk == NewSecretKey(password[1], salt)
    IN  IF dbKey # Nil
        THEN IF d.err # OK THEN Res(d.err, b, Some(d.sk), Nil, {})
             ELSE Res(OK, b, Some(d.sk), Nil, {})
        ELSE IF fault = "newkey" THEN Res(ErrRand, b, Nil, Nil, {})
        ELSE IF fault = "put1" THEN Res(ErrTx, b, Nil, Nil, {})
        ELSE Res(OK, BucketPut(b, encryptionKeyID, Marshal(sk)), Some(sk),
                 Nil, {encryptionKeyID})

CreateUnlockBody(b, password, salt, fault, lazy) ==
    LET dbKey == BucketGet(b, encryptionKeyID)
        d == DeriveKey(Unmarshal(dbKey[1]), password[1], lazy)
        sk == NewSecretKey(password[1], salt)
    IN  IF dbKey # Nil
        THEN IF d.err # OK THEN Res(d.err, b, Nil, Nil, {})
             ELSE Res(OK, b, Some(d.sk), Nil, {})
        ELSE IF fault = "newkey" THEN Res(ErrRand, b, Nil, Nil, {})
        ELSE IF fault = "put1" THEN Res(ErrTx, b, Nil, Nil, {})
        ELSE Res(OK, BucketPut(b, encryptionKeyID, Marshal(sk)), Some(sk),
                 Nil, {encryptionKeyID})

CreateUnlockTx(p) ==
    /\ pc[p] = "wait"
    /\ cur[p].op = "CreateUnlock"
    /\ WriterFree
    /\ IF closed[InstOf(p)] THEN NotOpen(p)
       ELSE \E salt \in Salts, fault \in Faults, lazy \in DeriveModes :
               Ran(p, CreateUnlockBody(db, cur[p].pw, salt, fault, lazy))

\* ----------------------------------------------------------- ChangePassword
\* (mutant) the nil check made before the lock check
ChangePasswordCheckNilFirst(key, oldPassword, newPassword) ==
    IF oldPassword = Nil \/ newPassword = Nil THEN ErrPasswordRequired
    ELSE IF key = Nil THEN ErrStoreLocked
    ELSE OK

\* (mutant) only the old password checked for nil
ChangePasswordCheckOldOnly(key, oldPassword, newPassword) ==
    IF key = Nil THEN ErrStoreLocked
    ELSE IF oldPassword = Nil THEN ErrPasswordRequired
    ELSE OK

ChangePasswordCheck(key, oldPassword, newPassword) ==
    IF key = Nil THEN ErrStoreLocked
    ELSE IF oldPassword = Nil \/ newPassword = Nil THEN ErrPasswordRequired
    ELSE OK

ChangePassword(p) ==
    /\ pc[p] = "called"
    /\ cur[p].op = "ChangePassword"
    /\ Checked(p, ChangePasswordCheck(encKey[InstOf(p)], cur[p].pw, cur[p].newpw))

\* (mutant) the root key encrypted again with the old key
ChangePasswordBodyOldKey(b, oldPassword, newPassword, salt, fault, lazy) ==
    LET encKeyDb == BucketGet(b, encryptionKeyID)
        rootKeyDb == BucketGet(b, defaultRootKeyID)
        d == DeriveKey(Unmarshal(encKeyDb[1]), oldPassword[1], lazy)
        encKeyNew == NewSecretKey(newPassword[1], salt)
        dec == Decrypt(d.sk, rootKeyDb[1])
        b1 == BucketPut(b, defaultRootKeyID, Encrypt(d.sk, dec.pt))
        b2 == BucketPut(b1, encryptionKeyID, Marshal(encKeyNew))
    IN  IF encKeyDb = Nil \/ rootKeyDb = Nil
        THEN Res(ErrEncKeyNotFound, b, Nil, Nil, {})
        ELSE IF d.err # OK THEN Res(d.err, b, Nil, Nil, {})
        ELSE IF fault = "newkey" THEN Res(ErrRand, b, Nil, Nil, {})
        ELSE IF dec.err # OK THEN Res(dec.err, b, Nil, Nil, {})
        ELSE IF fault = "encrypt" THEN Res(ErrRand, b, Nil, Nil, {})
        ELSE IF fault = "put1" THEN Res(ErrTx, b, Nil, Nil, {})
        ELSE IF fault = "put2" THEN Res(ErrTx, b1, Nil, Nil, {})
        ELSE Res(OK, b2, Some(encKeyNew), Nil,
                 {defaultRootKeyID, encryptionKeyID})

\* (mutant) without a stored root key only the parameters are replaced
ChangePasswordBodyParamsOnly(b, oldPassword, newPassword, salt, fault, lazy) ==
    LET encKeyDb == BucketGet(b, encryptionKeyID)
        rootKeyDb == BucketGet(b, defaultRootKeyID)
        d == DeriveKey(Unmarshal(encKeyDb[1]), oldPassword[1], lazy)
        encKeyNew == NewSecretKey(newPassword[1], salt)
        dec == Decrypt(d.sk, rootKeyDb[1])
        b1 == BucketPut(b, defaultRootKeyID, Encrypt(encKeyNew, dec.pt))
        b2 == BucketPut(b1, encryptionKeyID, Marshal(encKeyNew))
    IN  IF encKeyDb = Nil
        THEN Res(ErrEncKeyNotFound, b, Nil, Nil, {})
        ELSE IF d.err # OK THEN Res(d.err, b, Nil, Nil, {})
        ELSE IF fault = "newkey" THEN Res(ErrRand, b, Nil, Nil, {})
        ELSE IF rootKeyDb = Nil
        THEN Res(OK, BucketPut(b, encryptionKeyID, Marshal(encKeyNew)),
                 Some(encKeyNew), Nil, {encryptionKeyID})
        ELSE IF dec.err # OK THEN Res(dec.err, b, Nil, Nil, {})
        ELSE IF fault = "encrypt" THEN Res(ErrRand, b, Nil, Nil, {})
        ELSE IF fault = "put1" THEN Res(ErrTx, b, Nil, Nil, {})
        ELSE IF fault = "put2" THEN Res(ErrTx, b1, Nil, Nil, {})
        ELSE Res(OK, b2, Some(encKeyNew), Nil,
                 {defaultRootKeyID, encryptionKeyID})

ChangePasswordBody(b, oldPassword, newPassword, salt, fault, lazy) ==
    LET encKeyDb == BucketGet(b, encryptionKeyID)
        rootKeyDb == BucketGet(b, defaultRootKeyID)
        d == DeriveKey(Unmarshal(encKeyDb[1]), oldPassword[1], lazy)
        encKeyNew == NewSecretKey(newPassword[1], salt)
        dec == Decrypt(d.sk, rootKeyDb[1])
        b1 == BucketPut(b, defaultRootKeyID, Encrypt(encKeyNew, dec.pt))
        b2 == BucketPut(b1, encryptionKeyID, Marshal(encKeyNew))
    IN  IF encKeyDb = Nil \/ rootKeyDb = Nil
        THEN Res(ErrEncKeyNotFound, b, Nil, Nil, {})
        ELSE IF d.err # OK THEN Res(d.err, b, Nil, Nil, {})
        ELSE IF fault = "newkey" THEN Res(ErrRand, b, Nil, Nil, {})
        ELSE IF dec.err # OK THEN Res(dec.err, b, Nil, Nil, {})
        ELSE IF fault = "encrypt" THEN Res(ErrRand, b, Nil, Nil, {})
        ELSE IF fault = "put1" THEN Res(ErrTx, b, Nil, Nil, {})
        ELSE IF fault = "put2" THEN Res(ErrTx, b1, Nil, Nil, {})
        ELSE [Res(OK, b2, Some(encKeyNew), Nil,
                  {defaultRootKeyID, encryptionKeyID})
                EXCEPT !.left = {d.sk}]

ChangePasswordTx(p) ==
    /\ pc[p] = "wait"
    /\ cur[p].op = "ChangePassword"
    /\ WriterFree
    /\ IF closed[InstOf(p)] THEN NotOpen(p)
       ELSE \E salt \in Salts, fault \in Faults, lazy \in DeriveModes :
               Ran(p, ChangePasswordBody(db, cur[p].pw, cur[p].newpw,
                                         salt, fault, lazy))

\* ---------------------------------------------------------------------- Get
GetCheck(key) == IF key = Nil THEN ErrStoreLocked ELSE OK

\* Get up to the beginning of its View transaction, which reads the bucket
\* as committed at this moment
Get(p) ==
    /\ pc[p] = "called"
    /\ cur[p].op = "Get"
    /\ LET e == GetCheck(encKey[InstOf(p)])
       IN  IF e # OK THEN Done(p, e, Nil, {})
           ELSE IF closed[InstOf(p)] THEN Done(p, ErrDatabaseNotOpen, Nil, {})
           ELSE /\ pc' = [pc EXCEPT ![p] = "view"]
                /\ tx' = [tx EXCEPT ![p] = db]
                /\ UNCHANGED <<cur, ret, overlap, seen, changed, gen, ledger>>
    /\ UNCHANGED <<db, encKey, closed, writer>>

\* (mutant) a value that does not decrypt reported as not found
GetBodyHidesDecrypt(b, key, id) ==
    LET dbKey == BucketGet(b, id)
        dec == Decrypt(key[1], dbKey[1])
    IN  IF dbKey = Nil THEN Res(ErrRootKeyNotExist, b, Nil, Nil, {})
        ELSE IF dec.err # OK THEN Res(ErrRootKeyNotExist, b, Nil, Nil, {})
        ELSE Res(OK, b, Nil, dec.pt, {})

GetBody(b, key, id) ==
    LET dbKey == BucketGet(b, id)
        dec == Decrypt(key[1], dbKey[1])
    IN  IF dbKey = Nil THEN Res(ErrRootKeyNotExist, b, Nil, Nil, {})
        ELSE IF dec.err # OK THEN Res(dec.err, b, Nil, Nil, {})
        ELSE Res(OK, b, Nil, dec.pt, {})

GetTx(p) ==
    /\ pc[p] = "view"
    /\ LET r == GetBody(tx[p], encKey[InstOf(p)], cur[p].id)
       IN  Done(p, r.err, r.val, {})
    /\ UNCHANGED <<db, encKey, closed, writer>>

\* ------------------------------------------------------------------ RootKey
RootKeyCheck(key) == IF key = Nil THEN ErrStoreLocked ELSE OK

RootKey(p) ==
    /\ pc[p] = "called"
    /\ cur[p].op = "RootKey"
    /\ Checked(p, RootKeyCheck(encKey[InstOf(p)]))

\* (mutant) a stored key that does not decrypt is replaced by a new one
RootKeyBodyRegenerate(b, key, rnd, fault) ==
    LET dbKey == BucketGet(b, defaultRootKeyID)
        dec == Decrypt(key[1], dbKey[1])
        rootKey == NewRootKey(rnd)
    IN  IF dbKey # Nil /\ dec.err = OK
        THEN Res(OK, b, Nil, dec.pt, {})
        ELSE IF fault = "rand" THEN Res(ErrRand, b, Nil, Nil, {})
        ELSE IF fault = "encrypt" THEN Res(ErrRand, b, Nil, Nil, {})
        ELSE IF fault = "put1" THEN Res(ErrTx, b, Nil, Nil, {})
        ELSE ResMade(BucketPut(b, defaultRootKeyID, Encrypt(key[1], rootKey)),
                     rootKey, rootKey, {defaultRootKeyID})

\* (mutant) a new key is generated and stored whether or not one exists
RootKeyBodyAlwaysNew(b, key, rnd, fault) ==
    LET rootKey == NewRootKey(rnd)
    IN  IF fault = "rand" THEN Res(ErrRand, b, Nil, Nil, {})
        ELSE IF fault = "encrypt" THEN Res(ErrRand, b, Nil, Nil, {})
        ELSE IF fault = "put1" THEN Res(ErrTx, b, Nil, Nil, {})
        ELSE ResMade(BucketPut(b, defaultRootKeyID, Encrypt(key[1], rootKey)),
                     rootKey, rootKey, {defaultRootKeyID})

RootKeyBody(b, key, rnd, fault) ==
    LET dbKey == BucketGet(b, defaultRootKeyID)
        dec == Decrypt(key[1], dbKey[1])
        rootKey == NewRootKey(rnd)
    IN  IF dbKey # Nil
        THEN IF dec.err # OK THEN Res(dec.err, b, Nil, Nil, {})
             ELSE Res(OK, b, Nil, dec.pt, {})
        ELSE IF fault = "rand" THEN Res(ErrRand, b, Nil, Nil, {})
        ELSE IF fault = "encrypt" THEN Res(ErrRand, b, Nil, Nil, {})
        ELSE IF fault = "put1" THEN Res(ErrTx, b, Nil, Nil, {})
        ELSE ResMade(BucketPut(b, defaultRootKeyID, Encrypt(key[1], rootKey)),
                     rootKey, rootKey, {defaultRootKeyID})

RootKeyTx(p) ==
    /\ pc[p] = "wait"
    /\ cur[p].op = "RootKey"
    /\ WriterFree
    /\ IF closed[InstOf(p)] THEN NotOpen(p)
       ELSE \E rnd \in 1..MaxRand, fault \in Faults :
               Ran(p, RootKeyBody(db, encKey[InstOf(p)], rnd, fault))

\* ------------------------------------------------------- GenerateNewRootKey
GenerateNewRootKeyCheck(key) == IF key = Nil THEN ErrStoreLocked ELSE OK

GenerateNewRootKey(p) ==
    /\ pc[p] = "called"
    /\ cur[p].op = "GenerateNewRootKey"
    /\ Checked(p, GenerateNewRootKeyCheck(encKey[InstOf(p)]))

\* (mutant) the new key stored only when none is stored
GenerateNewRootKeyBodyIfAbsent(b, key, rnd, fault) ==
    LET rootKey == NewRootKey(rnd)
    IN  IF fault = "rand" THEN Res(ErrRand, b, Nil, Nil, {})
        ELSE IF fault = "encrypt" THEN Res(ErrRand, b, Nil, Nil, {})
        ELSE IF fault = "put1" THEN Res(ErrTx, b, Nil, Nil, {})
        ELSE IF BucketGet(b, defaultRootKeyID) # Nil
        THEN ResMade(b, Nil, rootKey, {})
        ELSE ResMade(BucketPut(b, defaultRootKeyID, Encrypt(key[1], rootKey)),
                     Nil, rootKey, {defaultRootKeyID})

GenerateNewRootKeyBody(b, key, rnd, fault) ==
    LET rootKey == NewRootKey(rnd)
    IN  IF fault = "rand" THEN Res(ErrRand, b, Nil, Nil, {})
        ELSE IF fault = "encrypt" THEN Res(ErrRand, b, Nil, Nil, {})
        ELSE IF fault = "put1" THEN Res(ErrTx, b, Nil, Nil, {})
        ELSE ResMade(BucketPut(b, defaultRootKeyID, Encrypt(key[1], rootKey)),
                     Nil, rootKey, {defaultRootKeyID})

GenerateNewRootKeyTx(p) ==
    /\ pc[p] = "wait"
    /\ cur[p].op = "GenerateNewRootKey"
    /\ WriterFree
    /\ IF closed[InstOf(p)] THEN NotOpen(p)
       ELSE \E rnd \in 1..MaxRand, fault \in Faults :
               Ran(p, GenerateNewRootKeyBody(db, encKey[InstOf(p)], rnd, fault))

\* -------------------------------------------------------------------- Close
\* Close zeroes the key r.encKey points to (the pointer stays) and closes the
\* handle; bolt's Close waits for the handle's open transactions.
Close(p) ==
    /\ pc[p] = "called"
    /\ cur[p].op = "Close"
    /\ \A q \in Procs : InstOf(q) = InstOf(p) => pc[q] \notin {"commit", "view"}
    /\ encKey' = [encKey EXCEPT ![InstOf(p)] =
                     IF @ = Nil THEN Nil ELSE Some(Zero(@[1]))]
    /\ closed' = [closed EXCEPT ![InstOf(p)] = TRUE]
    /\ Done(p, OK, Nil, {})
    /\ UNCHANGED <<db, writer>>

\* ------------------------------------------------------------ specification
\* one goroutine per instance, the calls made one after the other
Next ==
    \E p \in Inst :
        \/ \E c \in Calls : Call(p, c)
        \/ CreateUnlock(p)
        \/ CreateUnlockTx(p)
        \/ ChangePassword(p)
        \/ ChangePasswordTx(p)
        \/ Get(p)
        \/ GetTx(p)
        \/ RootKey(p)
        \/ RootKeyTx(p)
        \/ GenerateNewRootKey(p)
        \/ GenerateNewRootKeyTx(p)
        \/ Commit(p)
        \/ Close(p)

Spec == Init /\ [][Next]_vars

\* the state after NewRootKeyStorage, the goroutines calling concurrently
InitConc == Start /\ overlap = TRUE

\* the calls the concurrent goroutines make: unlocking, and the root key
ConcCalls ==
    {MkCall("CreateUnlock", "", Some(w), Nil) : w \in Passwords}
    \cup {MkCall("RootKey", "", Nil, Nil)}

\* several goroutines per instance, their calls overlapping
NextConc ==
    \E p \in Procs :
        \/ \E c \in ConcCalls : Call(p, c)
        \/ CreateUnlock(p)
        \/ CreateUnlockTx(p)
        \/ RootKey(p)
        \/ RootKeyTx(p)
        \/ Commit(p)

SpecConc == InitConc /\ [][NextConc]_vars

\* ------------------------------------------- callers that share an instance
\* the goroutines that call instance 1
RaceProcs == {p \in Procs : InstOf(p) = 1}

\* their calls: unlocking with the password, reading the root key, and
\* changing the password, the old password being the right one
RaceCalls ==
    {MkCall("CreateUnlock", "", Some("a"), Nil),
     MkCall("RootKey", "", Nil, Nil),
     MkCall("Get", defaultRootKeyID, Nil, Nil),
     MkCall("ChangePassword", "", Some("a"), Some(""))}

InitRace == Start /\ overlap = TRUE

\* the goroutines of one instance, their calls overlapping in any way:
\* no lock of RootKeyStorage keeps a handler that assigns r.encKey from
\* running beside one that reads it
NextRace ==
    \E p \in RaceProcs :
        \/ \E c \in RaceCalls : Enter(p, c)
        \/ CreateUnlock(p)
        \/ CreateUnlockTx(p)
        \/ ChangePassword(p)
        \/ ChangePasswordTx(p)
        \/ Get(p)
        \/ GetTx(p)
        \/ RootKey(p)
        \/ RootKeyTx(p)
        \/ Commit(p)

SpecRace == InitRace /\ [][NextRace]_vars

\* ----------------------------------------------------------- AccountStorage
\* the goroutine that calls the account storage, as holder of the writer lock
Ledger == NumProcs + 1

\* tx.Bucket(name) of the committed database
Bucket(name) == IF name = rootKeyBucketName THEN db ELSE accounts

\* the commit of a transaction that has written bucket name as b
Published(name, b) ==
    /\ db' = IF name = rootKeyBucketName THEN b ELSE db
    /\ accounts' = IF name = rootKeyBucketName THEN accounts ELSE b

rootKeyVars == <<encKey, closed, pc, cur, tx, ret, overlap, seen, changed, gen>>

LedgerCalls ==
    {[NoACall EXCEPT !.op = "NewAccount", !.stage = "called",
                     !.balance = Some(a[1]), !.expirationDate = Some(a[2])] :
        a \in Balances \X Expirations}
    \cup {[NoACall EXCEPT !.op = "GetAccount", !.stage = "called",
                          !.id = Some(id)] : id \in AccountIDs}
    \cup {[NoACall EXCEPT !.op = "GetAccounts", !.stage = "called"]}

\* the caller calls c, no other call being in flight
LedgerCall(c) ==
    /\ acall.op = ""
    /\ \A p \in Procs : pc[p] = "idle"
    /\ c.op = "NewAccount" => Len(created.list) < MaxAccounts
    /\ acall' = c
    /\ aret' = NoARet
    /\ UNCHANGED <<db, writer, rootKeyVars, accounts, created, codec>>

\* the call in flight returns
LedgerDone(err, account, list) ==
    /\ aret' = [op |-> acall.op, err |-> err,
                account |-> IF err = OK THEN account ELSE Nil,
                accounts |-> IF err = OK THEN list ELSE <<>>]
    /\ acall' = NoACall
    /\ created' = IF acall.op = "NewAccount" /\ err = OK
                  THEN [created EXCEPT !.list = Append(@, account[1])]
                  ELSE created
    /\ UNCHANGED <<rootKeyVars, codec>>

\* NewAccount up to its transaction: the account is built and its ID drawn
NewAccount ==
    /\ acall.op = "NewAccount"
    /\ acall.stage = "called"
    /\ \E now \in Nows, r \in 1..MaxID, ok \in BOOLEAN :
          IF ~ok THEN LedgerDone(ErrRand, Nil, <<>>)
          ELSE /\ acall' = [acall EXCEPT
                              !.stage = "wait",
                              !.account = Some(MkAccount(
                                  NewAccountID(r), OneTimeBalance,
                                  acall.balance[1], acall.balance[1],
                                  now, acall.expirationDate[1]))]
               /\ UNCHANGED <<aret, created, rootKeyVars, codec>>
    /\ UNCHANGED <<db, accounts, writer>>

\* (mutant) the account marshaled and not put
NewAccountBodyNoPut(b, account, fault) ==
    LET accountBinary == AccountMarshal(account)
    IN  IF accountBinary.err # OK THEN [err |-> accountBinary.err, bucket |-> b]
        ELSE IF fault = "put1" THEN [err |-> ErrTx, bucket |-> b]
        ELSE [err |-> OK, bucket |-> b]

\* the closure of NewAccount: the account marshaled and put under its ID
NewAccountBody(b, account, fault) ==
    LET accountBinary == AccountMarshal(account)
    IN  IF accountBinary.err # OK THEN [err |-> accountBinary.err, bucket |-> b]
        ELSE IF fault = "put1" THEN [err |-> ErrTx, bucket |-> b]
        ELSE [err |-> OK,
              bucket |-> BucketPut(b, account.ID, accountBinary.bytes)]

NewAccountTx ==
    /\ acall.op = "NewAccount"
    /\ acall.stage = "wait"
    /\ WriterFree
    /\ \E fault \in {"none", "put1"} :
          LET r == NewAccountBody(Bucket(accountBucketName), acall.account[1], fault)
          IN  IF r.err # OK
              THEN LedgerDone(r.err, Nil, <<>>) /\ UNCHANGED writer
              ELSE /\ acall' = [acall EXCEPT !.stage = "commit", !.tx = r.bucket]
                   /\ writer' = Ledger
                   /\ UNCHANGED <<aret, created, rootKeyVars, codec>>
    /\ UNCHANGED <<db, accounts>>

\* the commit of NewAccount's transaction, or its failure
NewAccountCommit ==
    /\ acall.op = "NewAccount"
    /\ acall.stage = "commit"
    /\ \E ok \in BOOLEAN :
          /\ IF ok THEN Published(accountBucketName, acall.tx)
             ELSE UNCHANGED <<db, accounts>>
          /\ LedgerDone(IF ok THEN OK ELSE ErrTx, acall.account, <<>>)
    /\ writer' = 0

\* what GetAccount returns for bucket b
GetAccountBody(b, id) ==
    LET accountBinary == BucketGet(b, id)
    IN  IF accountBinary = Nil \/ Len(accountBinary[1]) = 0
        THEN [err |-> ErrAccNotFound, account |-> ZeroAccount]
        ELSE AccountUnmarshal(accountBinary[1])

GetAccount ==
    /\ acall.op = "GetAccount"
    /\ acall.stage = "called"
    /\ LET r == GetAccountBody(Bucket(accountBucketName), acall.id[1])
       IN  LedgerDone(r.err, Some(r.account), <<>>)
    /\ UNCHANGED <<db, accounts, writer>>

\* the order of bolt's keys: bytewise
KeyLess(k, l) ==
    \E n \in 1..Len(k) :
        /\ n <= Len(l)
        /\ k[n] < l[n]
        /\ \A m \in 1..(n - 1) : k[m] = l[m]

\* (mutant) the enumeration ended after the first key
ForEachFirst(b, keys, read) ==
    IF keys = {} THEN [err |-> OK, accounts |-> read]
    ELSE LET k == CHOOSE x \in keys : \A y \in keys \ {x} : KeyLess(x, y)
             r == AccountUnmarshal(b[k])
         IN  IF r.err # OK THEN [err |-> r.err, accounts |-> <<>>]
             ELSE [err |-> OK, accounts |-> Append(read, r.account)]

\* (mutant) a value that does not unmarshal is passed over
RECURSIVE ForEachSkip(_, _, _)
ForEachSkip(b, keys, read) ==
    IF keys = {} THEN [err |-> OK, accounts |-> read]
    ELSE LET k == CHOOSE x \in keys : \A y \in keys \ {x} : KeyLess(x, y)
             r == AccountUnmarshal(b[k])
         IN  IF r.err # OK THEN ForEachSkip(b, keys \ {k}, read)
             ELSE ForEachSkip(b, keys \ {k}, Append(read, r.account))

\* Bucket.ForEach(readFn) over the keys still to visit: the accounts
\* unmarshaled so far, or the first error
RECURSIVE ForEach(_, _, _)
ForEach(b, keys, read) ==
    IF keys = {} THEN [err |-> OK, accounts |-> read]
    ELSE LET k == CHOOSE x \in keys : \A y \in keys \ {x} : KeyLess(x, y)
             r == AccountUnmarshal(b[k])
         IN  IF r.err # OK THEN [err |-> r.err, accounts |-> <<>>]
             ELSE ForEach(b, keys \ {k}, Append(read, r.account))

GetAccounts ==
    /\ acall.op = "GetAccounts"
    /\ acall.stage = "called"
    /\ LET b == Bucket(accountBucketName)
           r == ForEach(b, DOMAIN b, <<>>)
       IN  LedgerDone(r.err, Nil, r.accounts)
    /\ UNCHANGED <<db, accounts, writer>>

\* the database file as NewAccountStorage finds it, the root key store new
InitAcct ==
    /\ RootKeyStart
    /\ overlap = FALSE
    /\ codec = NoCodec
    /\ accounts \in InitialLedgers
    /\ created = [empty |-> accounts = EmptyBucket, list |-> <<>>]

\* the calls of the root key store made beside the account storage
BesideCalls ==
    {MkCall("CreateUnlock", "", Some("a"), Nil),
     MkCall("ChangePassword", "", Some("a"), Some("a")),
     MkCall("Get", defaultRootKeyID, Nil, Nil),
     MkCall("RootKey", "", Nil, Nil),
     MkCall("GenerateNewRootKey", "", Nil, Nil)}

\* one caller of the account storage and one of a root key store, their
\* calls made one after the other
NextAcct ==
    \/ \E c \in LedgerCalls : LedgerCall(c)
    \/ NewAccount
    \/ NewAccountTx
    \/ NewAccountCommit
    \/ GetAccount
    \/ GetAccounts
    \/ \E c \in BesideCalls : acall.op = "" /\ Call(1, c)
    \/ CreateUnlock(1)
    \/ CreateUnlockTx(1)
    \/ ChangePassword(1)
    \/ ChangePasswordTx(1)
    \/ Get(1)
    \/ GetTx(1)
    \/ RootKey(1)
    \/ RootKeyTx(1)
    \/ GenerateNewRootKey(1)
    \/ GenerateNewRootKeyTx(1)
    \/ Commit(1)

SpecAcct == InitAcct /\ [][NextAcct]_vars

\* ---------------------------------------------------- Marshal and Unmarshal
\* an account to marshal, or a byte slice to unmarshal
CodecInputs ==
    {[NoCodec EXCEPT !.op = "account", !.arg = Some(a)] : a \in AccountSamples}
    \cup {[NoCodec EXCEPT !.op = "bytes", !.arg = Some(b)] : b \in BlobSamples}

InitCodec ==
    /\ RootKeyStart
    /\ overlap = FALSE
    /\ accounts = EmptyBucket
    /\ created = [empty |-> TRUE, list |-> <<>>]
    /\ codec \in CodecInputs

\* a.Marshal() of the account
CodecMarshal ==
    /\ codec.op = "account"
    /\ LET r == AccountMarshal(codec.arg[1])
       IN  codec' = [op |-> "Marshal", arg |-> codec.arg, err |-> r.err,
                     bytes |-> r.bytes, account |-> Nil]

\* a.Unmarshal(b) of the byte slice into a new account
CodecUnmarshal ==
    /\ codec.op = "bytes"
    /\ LET r == AccountUnmarshal(codec.arg[1])
       IN  codec' = [op |-> "Unmarshal", arg |-> codec.arg, err |-> r.err,
                     bytes |-> <<>>,
                     account |-> IF r.err = OK THEN Some(r.account) ELSE Nil]

\* Unmarshal of the bytes Marshal has returned
CodecRoundTrip ==
    /\ codec.op = "Marshal"
    /\ codec.err = OK
    /\ LET r == AccountUnmarshal(codec.bytes)
       IN  codec' = [op |-> "RoundTrip", arg |-> codec.arg, err |-> r.err,
                     bytes |-> codec.bytes,
                     account |-> IF r.err = OK THEN Some(r.account) ELSE Nil]

NextCodec ==
    /\ \/ CodecMarshal
       \/ CodecUnmarshal
       \/ CodecRoundTrip
    /\ UNCHANGED <<db, encKey, closed, writer, pc, cur, tx, ret, overlap,
                   seen, changed, gen, accounts, acall, aret, created>>

SpecCodec == InitCodec /\ [][NextCodec]_vars

\* ------------------------------------------------------------------- claims
\* the step in which the call of goroutine p returns
Returns(p) == pc[p] # "idle" /\ pc'[p] = "idle" /\ ret'.proc = p

\* the step in which handler op, called by p, makes its check
Checks(p) == pc[p] = "called" /\ pc'[p] # "called"

\* the persisted records and the in-memory keys stay as they are
Untouched == db' = db /\ encKey' = encKey

Locked(i) == encKey[i] = Nil

\* the instance holds a key and its handle is open
Unlocked(i) == encKey[i] # Nil /\ ~closed[i]

Stored(k) == k \in DOMAIN db

LockedOps == {"Get", "RootKey", "ChangePassword", "GenerateNewRootKey"}

\* C1: on an instance that holds no key (Locked), Get, RootKey,
\* ChangePassword and GenerateNewRootKey return ErrStoreLocked whatever their
\* arguments, and change neither the bucket nor any in-memory key.
C1_LockedFails ==
    [][\A p \in Procs :
          Checks(p) /\ cur[p].op \in LockedOps /\ Locked(InstOf(p))
          => Returns(p) /\ ret'.err = ErrStoreLocked /\ Untouched]_vars

\* a locked instance has refused a call while both records are persisted
C1_Witness ==
    /\ ret.op = "ChangePassword"
    /\ ret.err = ErrStoreLocked
    /\ Locked(InstOf(ret.proc))
    /\ Stored(encryptionKeyID) /\ Stored(defaultRootKeyID)

\* C2: once CreateUnlock has succeeded on an instance the instance holds a
\* key for good, and every CreateUnlock on an instance that holds a key
\* returns ErrAlreadyUnlocked, whatever the password, nil included, and
\* changes neither the bucket nor any in-memory key.
C2_AlreadyUnlocked ==
    [][\A p \in Procs :
          /\ Returns(p) /\ cur[p].op = "CreateUnlock" /\ ret'.err = OK
             => encKey'[InstOf(p)] # Nil
          /\ encKey[InstOf(p)] # Nil => encKey'[InstOf(p)] # Nil
          /\ Checks(p) /\ cur[p].op = "CreateUnlock" /\ encKey[InstOf(p)] # Nil
             => Returns(p) /\ ret'.err = ErrAlreadyUnlocked /\ Untouched]_vars

\* a second CreateUnlock has been refused
C2_Witness ==
    /\ ret.op = "CreateUnlock"
    /\ ret.err = ErrAlreadyUnlocked
    /\ encKey[InstOf(ret.proc)] # Nil
    /\ Stored(encryptionKeyID)

EmptyOrAbsent(a) == a = Nil \/ a = Some("")

\* C3 as stated: CreateUnlock on a locked instance returns
\* ErrPasswordRequired when the password is empty or absent, ChangePassword
\* on an unlocked one when either password is empty or absent, and nothing is
\* persisted or changed in memory.
C3_EmptyOrAbsent ==
    [][\A p \in Procs :
          /\ Checks(p)
          /\ \/ cur[p].op = "CreateUnlock" /\ Locked(InstOf(p))
                /\ EmptyOrAbsent(cur[p].pw)
             \/ cur[p].op = "ChangePassword" /\ ~Locked(InstOf(p))
                /\ (EmptyOrAbsent(cur[p].pw) \/ EmptyOrAbsent(cur[p].newpw))
          => Returns(p) /\ ret'.err = ErrPasswordRequired /\ Untouched]_vars

\* C3 (amended): CreateUnlock on a locked instance returns
\* ErrPasswordRequired when the password is nil, ChangePassword on an
\* unlocked one when the old or the new password is nil; nothing is persisted
\* and no in-memory key changes.  An empty password that is not nil passes
\* the check.
C3_NilPassword ==
    [][\A p \in Procs :
          /\ Checks(p)
             /\ \/ cur[p].op = "CreateUnlock" /\ Locked(InstOf(p))
                   /\ cur[p].pw = Nil
                \/ cur[p].op = "ChangePassword" /\ ~Locked(InstOf(p))
                   /\ (cur[p].pw = Nil \/ cur[p].newpw = Nil)
             => Returns(p) /\ ret'.err = ErrPasswordRequired /\ Untouched
          /\ Checks(p) /\ cur[p].op = "CreateUnlock" /\ Locked(InstOf(p))
             /\ cur[p].pw = Some("")
             => pc'[p] = "wait"]_vars

\* an unlocked instance with both records persisted has refused a
\* ChangePassword for a nil password
C3_Witness ==
    /\ ret.op = "ChangePassword"
    /\ ret.err = ErrPasswordRequired
    /\ ~Locked(InstOf(ret.proc))
    /\ Stored(encryptionKeyID) /\ Stored(defaultRootKeyID)

\* the in-memory key is the one derived from password w
DerivedFrom(key, w) == key # Nil /\ \E salt \in Salts : key[1].key = DK(w, salt)

\* the call returned without an error of its own: it succeeded, or the
\* database or the random source failed
Passed(r) == r.err \in {OK} \cup StoreErrs

\* instance i was locked when the recorded ChangePassword succeeded
Fresh(i) == changed # Nil /\ i \in changed[1].locked

\* C4: if RootKey returned K1 and a ChangePassword(old, new) then succeeded
\* on an instance, RootKey on that instance still returns K1; an instance
\* that was locked is unlocked by CreateUnlock with the new password, and
\* RootKey on it returns K1 as well (any of these calls may still fail for
\* the database or the random source, never otherwise).
C4_ChangeKeepsRootKey ==
    [][\A p \in Procs :
          LET i == InstOf(p) IN
          changed # Nil /\ changed[1].k1 # Nil /\ ~closed[i] /\ Returns(p)
          => /\ /\ cur[p].op = "RootKey"
                /\ \/ i = changed[1].inst
                   \/ Fresh(i) /\ DerivedFrom(encKey[i], changed[1].new)
                => Passed(ret') /\ (ret'.err = OK => ret'.val = changed[1].k1[1])
             /\ /\ cur[p].op = "CreateUnlock"
                /\ Fresh(i)
                /\ cur[p].pw = Some(changed[1].new)
                /\ ret'.err # ErrAlreadyUnlocked
                => /\ Passed(ret')
                   /\ ret'.err = OK => DerivedFrom(encKey'[i], changed[1].new)]_vars

\* an instance that was locked during the password change has returned K1
C4_Witness ==
    /\ ret.op = "RootKey"
    /\ ret.err = OK
    /\ Fresh(InstOf(ret.proc))
    /\ changed[1].k1 = Some(ret.val)
    /\ changed[1].old # changed[1].new
    /\ DerivedFrom(encKey[InstOf(ret.proc)], changed[1].new)

\* C5: after a ChangePassword(old, new) with old # new has succeeded, on an
\* instance that was locked CreateUnlock with the old password fails or
\* leaves the instance with the key derived from the old password, and with
\* that key Get("0") and RootKey fail (with the decryption error, or for the
\* database), return no bytes and leave the bucket as it is.
C5_OldPasswordReadsNothing ==
    [][\A p \in Procs :
          LET i == InstOf(p) IN
          Fresh(i) /\ changed[1].old # changed[1].new /\ Returns(p)
          => /\ cur[p].op = "CreateUnlock" /\ cur[p].pw = Some(changed[1].old)
                /\ ret'.err = OK
                => DerivedFrom(encKey'[i], changed[1].old)
             /\ /\ \/ cur[p].op = "RootKey"
                   \/ cur[p].op = "Get" /\ cur[p].id = defaultRootKeyID
                /\ DerivedFrom(encKey[i], changed[1].old)
                => /\ ret'.err \in {ErrDecryptFailed} \cup StoreErrs
                   /\ ret'.val = Nil
                   /\ db' = db]_vars

\* an instance unlocked with the old password after the change has been
\* refused the root key
C5_Witness ==
    /\ ret.op = "RootKey"
    /\ ret.err = ErrDecryptFailed
    /\ Fresh(InstOf(ret.proc))
    /\ changed[1].old # changed[1].new
    /\ DerivedFrom(encKey[InstOf(ret.proc)], changed[1].old)

\* C6: every step of a ChangePassword call leaves the bucket as it is, but
\* the return of a successful one, after which "enckey" holds the parameters
\* of the new in-memory key and "0" the old plaintext encrypted with it.
C6_ChangeIsAtomic ==
    [][\A p \in Procs :
          cur[p].op = "ChangePassword" /\ pc'[p] # pc[p]
          => IF Returns(p) /\ ret'.err = OK
             THEN LET k == encKey'[InstOf(p)][1]
                  IN  /\ db'[encryptionKeyID] = Marshal(k)
                      /\ db'[defaultRootKeyID] =
                             Encrypt(k, db[defaultRootKeyID].pt)
             ELSE db' = db]_vars

\* a ChangePassword has failed in a write or in the commit
C6_Witness ==
    /\ ret.op = "ChangePassword"
    /\ ret.err = ErrTx
    /\ Stored(encryptionKeyID) /\ Stored(defaultRootKeyID)

\* C7: a RootKey call that succeeds returns RootKeyLen bytes and the id "0";
\* if a RootKey call has returned a key since the last GenerateNewRootKey it
\* returns that same key; it puts the ciphertext exactly when none was
\* stored, and otherwise leaves the bucket as it is.
C7_RootKeyIdempotent ==
    [][\A p \in Procs :
          Returns(p) /\ cur[p].op = "RootKey" /\ ret'.err = OK
          => /\ Len(ret'.val) = RootKeyLen
             /\ ret'.id = defaultRootKeyID
             /\ seen # Nil => ret'.val = seen[1] /\ ret'.wrote = {}
             /\ ret'.wrote = IF Stored(defaultRootKeyID) THEN {}
                             ELSE {defaultRootKeyID}
             /\ Stored(defaultRootKeyID) => db' = db]_vars

\* a RootKey call has returned the key an earlier call returned, without a put
C7_Witness ==
    /\ ret.op = "RootKey"
    /\ ret.err = OK
    /\ ret.wrote = {}
    /\ seen = Some(ret.val)
    /\ Len(ret.val) = RootKeyLen

\* C8: with goroutines calling RootKey concurrently, a call that succeeds
\* returns the key a RootKey call returned before, if one did, and then puts
\* nothing; a call puts a ciphertext only when none is stored, and what it
\* puts is the key it returns: one call creates the key, all return it.
C8_ConcurrentRootKey ==
    [][\A p \in Procs :
          Returns(p) /\ cur[p].op = "RootKey" /\ ret'.err = OK
          => /\ seen # Nil => ret'.val = seen[1] /\ ret'.wrote = {}
             /\ Stored(defaultRootKeyID)
                => /\ db' = db
                   /\ ret'.wrote = {}
                   /\ db[defaultRootKeyID].pt = ret'.val
             /\ ~Stored(defaultRootKeyID)
                => /\ ret'.wrote = {defaultRootKeyID}
                   /\ db'[defaultRootKeyID].pt = ret'.val]_vars

\* a goroutine has created the root key and not yet committed it while
\* another one, in RootKey as well, waits for the writer lock
C8_Witness ==
    \E p, q \in Procs :
        /\ p # q
        /\ pc[p] = "commit" /\ cur[p].op = "RootKey"
        /\ cur[p].wrote = {defaultRootKeyID}
        /\ pc[q] = "wait" /\ cur[q].op = "RootKey"
        /\ ~Stored(defaultRootKeyID)

\* C9: a GenerateNewRootKey call that succeeds has generated RootKeyLen
\* bytes and put them, encrypted with the in-memory key, under "0" whether
\* or not a value was stored; "enckey" and every in-memory key are as
\* before; RootKey and Get("0") on the instance afterwards return the
\* generated key (or fail for the database).
C9_Rotate ==
    [][\A p \in Procs :
          LET i == InstOf(p) IN
          /\ Returns(p) /\ cur[p].op = "GenerateNewRootKey" /\ ret'.err = OK
             => /\ Len(cur[p].made) = RootKeyLen
                /\ db'[defaultRootKeyID] = Encrypt(encKey[i][1], cur[p].made)
                /\ ret'.wrote = {defaultRootKeyID}
                /\ BucketGet(db', encryptionKeyID) = BucketGet(db, encryptionKeyID)
                /\ encKey' = encKey
          /\ /\ Returns(p) /\ gen # Nil /\ gen[1].inst = i
             /\ \/ cur[p].op = "RootKey"
                \/ cur[p].op = "Get" /\ cur[p].id = defaultRootKeyID
             => /\ Passed(ret')
                /\ ret'.err = OK => ret'.val = gen[1].key /\ ret'.wrote = {}]_vars

\* RootKey has returned the key that GenerateNewRootKey put over a stored one
C9_Witness ==
    /\ ret.op = "RootKey"
    /\ ret.err = OK
    /\ gen # Nil
    /\ gen[1].inst = InstOf(ret.proc)
    /\ ret.val = gen[1].key
    /\ Stored(encryptionKeyID)
    /\ db[defaultRootKeyID] = Encrypt(encKey[gen[1].inst][1], gen[1].key)

\* C10 as stated: Get on an unlocked instance returns the not-found error
\* when nothing is stored under id and otherwise the plaintext of what is
\* stored, and changes neither the bucket nor any in-memory key.
C10_GetReturnsPlaintext ==
    [][\A p \in Procs :
          Returns(p) /\ cur[p].op = "Get" /\ Unlocked(InstOf(p))
          => /\ Untouched
             /\ IF Stored(cur[p].id)
                THEN ret'.err = OK /\ ret'.val = db[cur[p].id].pt
                ELSE ret'.err = ErrRootKeyNotExist]_vars

\* C10 (amended): Get on an unlocked instance returns the not-found error
\* when nothing is stored under id; otherwise it returns the plaintext if
\* the value is a ciphertext made with the in-memory key, and the
\* decryption error if it is not; it changes neither the bucket nor any
\* in-memory key.
C10_GetReadOnly ==
    [][\A p \in Procs :
          LET i == InstOf(p)
              id == cur[p].id
          IN  Returns(p) /\ cur[p].op = "Get" /\ Unlocked(i)
              => /\ Untouched
                 /\ IF ~Stored(id) THEN ret'.err = ErrRootKeyNotExist
                    ELSE IF db[id].kind = "ct" /\ db[id].k = encKey[i][1].key
                    THEN ret'.err = OK /\ ret'.val = db[id].pt
                    ELSE ret'.err = ErrDecryptFailed /\ ret'.val = Nil]_vars

\* Get has returned the decryption error on an unlocked instance whose key
\* is not the one the stored root key was encrypted with
C10_Witness ==
    /\ ret.op = "Get"
    /\ ret.err = ErrDecryptFailed
    /\ Unlocked(InstOf(ret.proc))
    /\ Stored(defaultRootKeyID)
    /\ db[defaultRootKeyID].k # encKey[InstOf(ret.proc)][1].key


\* C11: Close, on an instance that holds a key, leaves it holding that key
\* with every byte zero, and closes the handle; on an instance that holds
\* none it only closes the handle; called once or again, it changes no
\* persisted record and no other instance's key.
C11_CloseZeroes ==
    [][\A p \in Procs :
          LET i == InstOf(p) IN
          Returns(p) /\ cur[p].op = "Close"
          => /\ db' = db
             /\ closed'[i]
             /\ ret'.err = OK
             /\ IF encKey[i] = Nil THEN encKey'[i] = Nil
                ELSE encKey'[i] # Nil /\ encKey'[i][1].key = ZeroKey
             /\ \A j \in Inst \ {i} : encKey'[j] = encKey[j] /\ closed'[j] = closed[j]]_vars

\* an unlocked instance has been closed with both records persisted
C11_Witness ==
    /\ ret.op = "Close"
    /\ ret.err = OK
    /\ encKey[InstOf(ret.proc)] # Nil
    /\ encKey[InstOf(ret.proc)][1].key = ZeroKey
    /\ closed[InstOf(ret.proc)]
    /\ Stored(encryptionKeyID) /\ Stored(defaultRootKeyID)


\* two times are the same instant in the same zone
SameTime(t, u) == Equal(t, u) /\ t.utc = u.utc /\ t.offset = u.offset

\* two accounts are equal field for field
SameAccount(a, b) ==
    /\ a.ID = b.ID
    /\ a.Type = b.Type
    /\ a.InitialBalance = b.InitialBalance
    /\ a.CurrentBalance = b.CurrentBalance
    /\ SameTime(a.LastUpdate, b.LastUpdate)
    /\ SameTime(a.ExpirationDate, b.ExpirationDate)

\* the binary format of time.Time can hold the zone of t
Encodable(t) ==
    \/ t.utc
    \/ /\ t.offset % 60 = 0
       /\ t.offset \div 60 \in (-32768..32767) \ {-1}

\* C12 as stated: Marshal of any account returns AccountLen bytes, and
\* Unmarshal of them returns an account equal to it field for field.
C12_RoundTripAny ==
    /\ codec.op = "Marshal" => codec.err = OK /\ Len(codec.bytes) = AccountLen
    /\ codec.op = "RoundTrip"
       => codec.err = OK /\ SameAccount(codec.account[1], codec.arg[1])

\* C12 (amended): Marshal of an account whose two times are in zones the
\* binary time format can hold returns AccountLen bytes, and Unmarshal of
\* them returns an account equal to it field for field; of any other
\* account Marshal returns an error and no bytes.
C12_RoundTrip ==
    /\ codec.op = "Marshal"
       => IF Encodable(codec.arg[1].LastUpdate)
             /\ Encodable(codec.arg[1].ExpirationDate)
          THEN codec.err = OK /\ Len(codec.bytes) = AccountLen
          ELSE codec.err = ErrTimeMarshal /\ codec.bytes = <<>>
    /\ codec.op = "RoundTrip"
       => codec.err = OK /\ SameAccount(codec.account[1], codec.arg[1])

\* a periodic account with two different balances, updated now in a zone
\* east of UTC, has come back from its bytes
C12_Witness ==
    /\ codec.op = "RoundTrip"
    /\ codec.err = OK
    /\ codec.arg[1].Type = PeriodicBalance
    /\ codec.arg[1].InitialBalance = <<513, 1027, 1541, 2055>>
    /\ codec.arg[1].CurrentBalance = <<9735, 0, 0, 0>>
    /\ codec.arg[1].LastUpdate.mono
    /\ codec.arg[1].LastUpdate.offset = 3600
    /\ codec.account[1].CurrentBalance = <<9735, 0, 0, 0>>

\* C13: Unmarshal of a byte slice whose length is not AccountLen, the empty
\* one included, returns ErrMalformed.
C13_WrongLength ==
    codec.op = "Unmarshal" /\ Len(codec.arg[1]) # AccountLen
    => codec.err = ErrMalformed /\ codec.account = Nil

\* a marshaled account with one byte more has been refused
C13_Witness ==
    /\ codec.op = "Unmarshal"
    /\ Len(codec.arg[1]) = AccountLen + 1
    /\ SubSeq(codec.arg[1], 1, AccountLen) = testAccountBytes
    /\ codec.err = ErrMalformed


\* the step in which the AccountStorage call in flight returns
LedgerReturns == acall.op # "" /\ acall'.op = ""

\* the version byte of LastUpdate or of ExpirationDate in value v is not
\* the one the time format decodes
BadTime(v) == v[AccountIDLen + 18] # 1 \/ v[AccountIDLen + 33] # 1

\* C14 as stated: GetAccount returns ErrAccNotFound exactly when no value
\* is stored under the ID; for a stored value it returns ErrMalformed if the
\* value is not AccountLen bytes long or one of its two times does not
\* decode, and the unmarshaled account otherwise.
C14_GetAccount ==
    [][LedgerReturns /\ acall.op = "GetAccount"
       => LET id == acall.id[1] IN
          IF id \notin DOMAIN accounts THEN aret'.err = ErrAccNotFound
          ELSE IF Len(accounts[id]) # AccountLen THEN aret'.err = ErrMalformed
          ELSE IF BadTime(accounts[id]) THEN aret'.err = ErrMalformed
          ELSE /\ aret'.err = OK
               /\ aret'.account = Some(AccountFields(accounts[id]).account)]_vars

\* the latest of the created accounts that has the ID id, if any
Latest(id) ==
    {n \in 1..Len(created.list) :
        /\ created.list[n].ID = id
        /\ \A m \in (n + 1)..Len(created.list) : created.list[m].ID # id}

\* C15: a NewAccount that succeeds returns an account of type
\* OneTimeBalance whose InitialBalance and CurrentBalance are the balance
\* given and whose ExpirationDate is the date given, and has stored it; a
\* GetAccount with the ID of a created account then returns an account
\* equal field for field to the one NewAccount returned last with that ID.
C15_NewThenGet ==
    [][/\ LedgerReturns /\ acall.op = "NewAccount" /\ aret'.err = OK
          => LET a == aret'.account[1] IN
             /\ a.Type = OneTimeBalance
             /\ a.InitialBalance = acall.balance[1]
             /\ a.CurrentBalance = acall.balance[1]
             /\ a.ExpirationDate = acall.expirationDate[1]
             /\ a.ID \in DOMAIN accounts'
       /\ LedgerReturns /\ acall.op = "GetAccount"
          => \A n \in Latest(acall.id[1]) :
                /\ aret'.err = OK
                /\ SameAccount(aret'.account[1], created.list[n])]_vars

\* GetAccount has returned the account of the test as NewAccount made it,
\* its LastUpdate without the monotonic reading that NewAccount's has
C15_Witness ==
    /\ aret.op = "GetAccount"
    /\ aret.err = OK
    /\ created.list # <<>>
    /\ SameAccount(aret.account[1], created.list[Len(created.list)])
    /\ aret.account[1].Type = OneTimeBalance
    /\ aret.account[1].CurrentBalance = <<9735, 0, 0, 0>>
    /\ aret.account[1].ExpirationDate = testExpDate
    /\ created.list[Len(created.list)].LastUpdate.mono
    /\ ~aret.account[1].LastUpdate.mono

\* every created account is among the returned ones
AllReturned(list) ==
    \A n \in 1..Len(created.list) :
        \E m \in 1..Len(list) : SameAccount(list[m], created.list[n])

DistinctIDs ==
    \A n, m \in 1..Len(created.list) :
        n # m => created.list[n].ID # created.list[m].ID

\* C16 as stated: on a bucket that was empty at first, GetAccounts returns
\* as many accounts as NewAccount calls have succeeded, each created
\* account among them.
C16_AllAccounts ==
    [][LedgerReturns /\ acall.op = "GetAccounts" /\ created.empty
       => /\ aret'.err = OK
          /\ Len(aret'.accounts) = Len(created.list)
          /\ AllReturned(aret'.accounts)]_vars

\* C16 (amended): the same, when the IDs drawn for the created accounts
\* are pairwise different.
C16_AllAccountsDistinct ==
    [][LedgerReturns /\ acall.op = "GetAccounts" /\ created.empty /\ DistinctIDs
       => /\ aret'.err = OK
          /\ Len(aret'.accounts) = Len(created.list)
          /\ AllReturned(aret'.accounts)]_vars

\* GetAccounts has returned the two accounts created in an empty bucket
C16_Witness ==
    /\ aret.op = "GetAccounts"
    /\ aret.err = OK
    /\ created.empty
    /\ Len(created.list) = 2
    /\ Len(aret.accounts) = 2
    /\ aret.accounts[1].ID # aret.accounts[2].ID


\* C17: every step of a root key store handler leaves the bucket "accounts"
\* as it is; every step of an AccountStorage call leaves the bucket
\* "macrootkeys" and every in-memory key as they are, and what GetAccount
\* and GetAccounts return is read from the bucket "accounts" alone, whether
\* the root key store holds a key or not.
C17_Namespaces ==
    [][/\ pc' # pc => accounts' = accounts
       /\ acall' # acall => db' = db /\ encKey' = encKey
       /\ LedgerReturns /\ acall.op = "NewAccount" /\ aret'.err = OK
          => DOMAIN accounts' = DOMAIN accounts \cup {aret'.account[1].ID}
       /\ LedgerReturns /\ acall.op = "GetAccount"
          => aret'.err = GetAccountBody(accounts, acall.id[1]).err
       /\ LedgerReturns /\ acall.op = "GetAccounts"
          => aret'.err = ForEach(accounts, DOMAIN accounts, <<>>).err]_vars

\* NewAccount is about to commit while the root key store is unlocked and
\* both of its records are stored
C17_Witness ==
    /\ acall.op = "NewAccount"
    /\ acall.stage = "commit"
    /\ encKey[1] # Nil
    /\ Stored(encryptionKeyID) /\ Stored(defaultRootKeyID)
    /\ DOMAIN accounts # {}

C19_EncKeyNotFound ==
    [][\A p \in Procs :
          /\ Returns(p) /\ cur[p].op = "ChangePassword"
          /\ cur[p].pw # Nil /\ cur[p].newpw # Nil
          /\ Unlocked(InstOf(p))
          /\ ~Stored(encryptionKeyID) \/ ~Stored(defaultRootKeyID)
          => ret'.err = ErrEncKeyNotFound /\ Untouched]_vars

\* ChangePassword has been refused after CreateUnlock and before any root
\* key was stored
C19_Witness ==
    /\ ret.op = "ChangePassword"
    /\ ret.err = ErrEncKeyNotFound
    /\ Unlocked(InstOf(ret.proc))
    /\ Stored(encryptionKeyID)
    /\ ~Stored(defaultRootKeyID)

\* the password is the one the stored parameters were made with
Correct(w) ==
    DK(w, db[encryptionKeyID].salt) = db[encryptionKeyID].digest

\* C20 as stated: with "enckey" stored, CreateUnlock on a locked instance
\* with any non-empty password, correct or wrong, makes no check of the
\* password: unless the database fails it succeeds and the instance holds
\* a key.
C20_NoCheck ==
    [][\A p \in Procs :
          /\ Returns(p) /\ cur[p].op = "CreateUnlock"
          /\ cur[p].pw # Nil /\ cur[p].pw # Some("")
          /\ Stored(encryptionKeyID)
          /\ ret'.err # ErrAlreadyUnlocked
          => /\ Passed(ret')
             /\ ret'.err = OK => encKey'[InstOf(p)] # Nil]_vars

\* C20 (amended): with "enckey" stored, CreateUnlock on a locked instance
\* with a password either succeeds, the instance then holding the key
\* derived from that password and the stored parameters, or, only if the
\* password is wrong, returns the invalid-password error of the key
\* derivation, the instance then holding no key; it writes nothing.  On an
\* instance whose key is not the one of the stored parameters, Get("0")
\* and RootKey return the decryption error for a root key encrypted with
\* the parameters' key.
C20_UnlockExisting ==
    [][\A p \in Procs :
          LET i == InstOf(p) IN
          /\ /\ Returns(p) /\ cur[p].op = "CreateUnlock"
             /\ cur[p].pw # Nil
             /\ Stored(encryptionKeyID)
             /\ ret'.err # ErrAlreadyUnlocked
             => /\ db' = db
                /\ ret'.err \in {OK, ErrInvalidPassword} \cup StoreErrs
                /\ ret'.err = OK
                   => /\ encKey'[i] # Nil
                      /\ encKey'[i][1].key =
                            DK(cur[p].pw[1], db[encryptionKeyID].salt)
                /\ ret'.err = ErrInvalidPassword
                   => ~Correct(cur[p].pw[1]) /\ encKey'[i] = Nil
          /\ /\ Returns(p)
             /\ \/ cur[p].op = "RootKey"
                \/ cur[p].op = "Get" /\ cur[p].id = defaultRootKeyID
             /\ Unlocked(i)
             /\ Stored(encryptionKeyID) /\ Stored(defaultRootKeyID)
             /\ db[defaultRootKeyID].k = db[encryptionKeyID].digest
             /\ encKey[i][1].key # db[encryptionKeyID].digest
             => ret'.err = ErrDecryptFailed /\ ret'.val = Nil /\ db' = db]_vars

\* CreateUnlock has refused a wrong password: the instance holds no key
C20_Witness ==
    /\ ret.op = "CreateUnlock"
    /\ ret.err = ErrInvalidPassword
    /\ Locked(InstOf(ret.proc))
    /\ Stored(encryptionKeyID) /\ Stored(defaultRootKeyID)


\* an instance unlocked with another key than the stored parameters' has
\* been refused the root key by the decryption
C20_LateWitness ==
    /\ ret.op \in {"RootKey", "Get"}
    /\ ret.err = ErrDecryptFailed
    /\ Unlocked(InstOf(ret.proc))
    /\ Stored(encryptionKeyID) /\ Stored(defaultRootKeyID)
    /\ encKey[InstOf(ret.proc)][1].key # db[encryptionKeyID].digest


\* the value stored under key k of the accounts bucket does not unmarshal
Undecodable(k) == AccountUnmarshal(accounts[k]).err # OK

\* C21: GetAccounts, when a value of the accounts bucket does not
\* unmarshal, returns an error and no account, however many values that
\* do unmarshal come before it in the enumeration.
C21_NoPartialList ==
    [][/\ LedgerReturns /\ acall.op = "GetAccounts"
       /\ \E k \in DOMAIN accounts : Undecodable(k)
       => aret'.err # OK /\ aret'.accounts = <<>> /\ aret'.account = Nil]_vars

\* GetAccounts has failed on a bucket in which an account that unmarshals
\* is enumerated before the value that does not
C21_Witness ==
    /\ aret.op = "GetAccounts"
    /\ aret.err # OK
    /\ aret.accounts = <<>>
    /\ \E k, l \in DOMAIN accounts :
          /\ KeyLess(k, l)
          /\ ~Undecodable(k)
          /\ Undecodable(l)


\* C22 as stated: a CreateUnlock or ChangePassword that returns an error,
\* the error of the commit included, leaves r.encKey what it was when the
\* handler was entered.
C22_FailureKeepsKey ==
    [][\A p \in Procs :
          /\ Returns(p) /\ cur[p].op \in {"CreateUnlock", "ChangePassword"}
          /\ ret'.err # OK
          => encKey'[InstOf(p)] = cur[p].encKey]_vars


\* C23 as stated: a Get of the root key on an instance that held the key
\* when Get was entered, reading a database in which a root key is stored,
\* returns that root key's plaintext, whatever Get, RootKey and
\* ChangePassword calls of the same instance run beside it.
C23_ConcurrentGet ==
    [][\A p \in Procs :
          /\ Returns(p) /\ cur[p].op = "Get" /\ cur[p].id = defaultRootKeyID
          /\ cur[p].encKey # Nil
          /\ pc[p] = "view"
          /\ defaultRootKeyID \in DOMAIN tx[p]
          => ret'.err = OK /\ ret'.val = tx[p][defaultRootKeyID].pt]_vars


\* C24 as stated: whenever "enckey" and "0" are both stored, the value
\* under "0" decrypts with the key that the stored parameters and the
\* password they were made with derive.
C24_Readable ==
    Stored(encryptionKeyID) /\ Stored(defaultRootKeyID)
    => Decrypt([Unmarshal(db[encryptionKeyID]) EXCEPT
                   !.key = db[encryptionKeyID].digest],
               db[defaultRootKeyID]).err = OK


\* C25 as stated: when ChangePassword succeeds, the secret key r.encKey
\* pointed at before and the key derived from the old password are zeroed.
C25_DiscardedZeroed ==
    [][\A p \in Procs :
          /\ Returns(p) /\ cur[p].op = "ChangePassword"
          /\ ret'.err = OK
          => \A sk \in cur[p].left : sk.key = ZeroKey]_vars

====
